---- MODULE Spec2Model ----
(***************************************************************************)
(* LoRaWAN water-logging simulation: the MAC layer (LoRaWANStack) and the  *)
(* discrete-time runner (SimulatorRunner).                                 *)
(*                                                                         *)
(* Time is simulated time in whole seconds.  The runner's clock starts at  *)
(* 0, the wall-clock instant at which the runner is constructed.           *)
(*                                                                         *)
(* The state is the MAC state of the stack, the runner's clock, flag and   *)
(* last-seen cache, the status, spreading factor and last_seen of the      *)
(* device rows, the uplink results and Reading rows of the latest step,    *)
(* the operator's water-level overrides, the number of ACTIVE alert rows   *)
(* of each device and type, and what the store holds of the latest step.   *)
(* The page's own dict of overrides, the devices for which the latest step *)
(* logged an error, and the latest call with its arguments are kept as     *)
(* well, so that a property can say which operation a transition was.      *)
(*                                                                         *)
(* The store is a session with autocommit and autoflush off: db.commit()   *)
(* makes every pending write durable, db.rollback() drops the pending      *)
(* ones.  The commits made while an alert row is created succeed; the      *)
(* commit that ends a step succeeds or raises.  The Reading rows of        *)
(* earlier steps are outside this state, so the outcome of the             *)
(* rate-of-rise computation, which reads them, is an input of the step.    *)
(***************************************************************************)
EXTENDS Integers, Sequences, FiniteSets, TLC

(***************************************************************************)
(* Bounds of the model.                                                    *)
(***************************************************************************)
MaxSteps == 14
MaxResetSteps == 2
MaxHourSteps == 23
MaxMacCalls == 3
MaxAlertSteps == 2
MaxStoreSteps == 2
MaxDeltaSteps == 2
MaxDeltaCalls == 3
MaxFaultSteps == 2
MaxPageSteps == 2
MaxSfSteps == 3
MaxLedgerCalls == 12
MaxLifecycleSteps == 3
MaxRunSteps == 4

(***************************************************************************)
(* Program constants (core/config.py and literals of the code).            *)
(***************************************************************************)
max_messages_per_hour == 10
transmission_interval == 300
collision_window == 2
device_offline_threshold_minutes == 30
SecondsPerHour == 3600
SecondsPerMinute == 60
water_level_threshold_cm == 50

MaxTime == MaxSteps * transmission_interval
MaxResetTime == MaxResetSteps * transmission_interval
MaxHourTime == MaxHourSteps * transmission_interval

\* The fleet: the ids of the rows of the devices table.
DeviceIds == {1, 2}
SpreadingFactors == {7, 8}
\* The fleets the runner is started on: device 1 is ONLINE with SF7, the
\* other devices have any status and spreading factor.
FleetSF == {f \in [DeviceIds -> SpreadingFactors] : f[1] = 7}
Deltas == {transmission_interval}
HourDeltas == {transmission_interval, SecondsPerHour}
MacDeltas == {0, collision_window, collision_window + 1, SecondsPerHour}
\* datetime.now() as reset() reads it: the wall clock has not moved on
\* noticeably since the runner was constructed.
ResetTimes == {0}

ONLINE == "online"
OFFLINE == "offline"
MAINTENANCE == "maintenance"
DeviceStatus == {ONLINE, OFFLINE, MAINTENANCE}
\* An Optional[datetime]: None, or Some(t) holding the time t.
FleetStatus == {f \in [DeviceIds -> DeviceStatus] : f[1] = ONLINE}
None == <<>>
Some(t) == <<t>>
ValueOf(opt) == opt[1]

VARIABLES
    current_time,            \* SimulatorRunner.current_time
    is_running,              \* SimulatorRunner.is_running
    transmission_history,    \* LoRaWANStack.transmission_history
    device_message_counts,   \* LoRaWANStack.device_message_counts
    device_last_seen,        \* SimulatorRunner.device_last_seen (cache)
    spreading_factor,        \* Device.spreading_factor, per device
    status,                  \* Device.status, per device
    last_seen,               \* Device.last_seen, per device
    step_uplinks,            \* what process_uplink returned, latest calls
    step_readings,           \* the Reading rows added by the latest step
    mac_calls,               \* direct calls of process_uplink made so far
    water_level_overrides,   \* SimulatorRunner.water_level_overrides
    device_last_levels,      \* SimulatorRunner.device_last_levels
    alerts,                  \* ACTIVE Alert rows, per device and alert type
    stored_readings,         \* the Reading rows of the latest step in the store
    commit_failed,           \* the commit ending the latest step raised
    session_overrides,       \* st.session_state.water_level_overrides
    step_errors,             \* devices the latest step logged an error for
    acknowledged_alerts,     \* ACKNOWLEDGED Alert rows, per device and type
    resolved_alerts,         \* RESOLVED Alert rows, per device and type
    last_call                \* the latest call: operation and arguments

vars == <<current_time, is_running, transmission_history,
          device_message_counts, device_last_seen, spreading_factor,
          status, last_seen, step_uplinks, step_readings, mac_calls,
          water_level_overrides, device_last_levels, alerts,
          stored_readings, commit_failed, session_overrides, step_errors,
          acknowledged_alerts, resolved_alerts, last_call>>

\* The state of the overrides, the alert rows and the store.
alert_vars == <<water_level_overrides, alerts, stored_readings, commit_failed,
                session_overrides, step_errors, acknowledged_alerts,
                resolved_alerts>>

\* Everything but the record of the latest call.
program_vars == <<current_time, is_running, transmission_history,
                  device_message_counts, device_last_seen, spreading_factor,
                  status, last_seen, step_uplinks, step_readings, mac_calls,
                  water_level_overrides, device_last_levels, alerts,
                  stored_readings, commit_failed, session_overrides,
                  step_errors, acknowledged_alerts, resolved_alerts>>

\* A call of an operation without arguments, and a call of step.
Call(op) == [op |-> op, time_delta_seconds |-> 0, force |-> FALSE]
StepCall(time_delta_seconds, force) ==
    [op |-> "step", time_delta_seconds |-> time_delta_seconds,
     force |-> force]

(***************************************************************************)
(* LoRaWANStack                                                            *)
(*                                                                         *)
(* transmission_history is a Python list that the code only appends to,    *)
(* filters and scans with "is there an entry such that"; neither its order *)
(* nor the number of equal entries is ever read, so it is kept as the set  *)
(* of its entries.  The per-device ledgers are counted and stay sequences. *)
(***************************************************************************)

\* A pruning that keeps every entry.
KeepAfter_keeping_all(times, hour_ago) == times

\* The list comprehension `[m for m in msgs if m > hour_ago]`.
KeepAfter(times, hour_ago) == SelectSeq(times, LAMBDA m : m > hour_ago)

\* check_duty_cycle pruning the ledger and admitting every call.
check_duty_cycle_always_ok(counts, device_id, now) ==
    LET hour_ago == now - SecondsPerHour
        kept == KeepAfter(counts[device_id], hour_ago)
    IN  [counts |-> [counts EXCEPT ![device_id] = kept],
         ok |-> TRUE]

\* check_duty_cycle admitting one message too many (<= for <).
check_duty_cycle_off_by_one(counts, device_id, now) ==
    LET hour_ago == now - SecondsPerHour
        kept == SelectSeq(counts[device_id], LAMBDA m : m > hour_ago)
    IN  [counts |-> [counts EXCEPT ![device_id] = kept],
         ok |-> Len(kept) <= max_messages_per_hour]

\* check_duty_cycle prunes the caller's ledger and compares its length with
\* the configured maximum.  A device missing from the dict is the same as a
\* device with an empty list: the code inserts [] before it reads.
check_duty_cycle(counts, device_id, now) ==
    LET hour_ago == now - SecondsPerHour
        kept == KeepAfter(counts[device_id], hour_ago)
    IN  [counts |-> [counts EXCEPT ![device_id] = kept],
         ok |-> Len(kept) < max_messages_per_hour]

\* detect_collision without the test that the transmission is another
\* device's.
detect_collision_any_device(history, device_id, sf, transmission_time) ==
    \E tx \in history :
        /\ tx.spreading_factor = sf
        /\ transmission_time - collision_window <= tx.time
        /\ tx.time <= transmission_time + collision_window

\* detect_collision counting only transmissions made before this one's
\* instant.
detect_collision_earlier_only(history, device_id, sf, transmission_time) ==
    \E tx \in history :
        /\ tx.device_id # device_id
        /\ tx.spreading_factor = sf
        /\ transmission_time - collision_window <= tx.time
        /\ tx.time < transmission_time

detect_collision(history, device_id, sf, transmission_time) ==
    LET window_start == transmission_time - collision_window
        window_end == transmission_time + collision_window
    IN  \E tx \in history :
            /\ tx.device_id # device_id
            /\ tx.spreading_factor = sf
            /\ window_start <= tx.time
            /\ tx.time <= window_end

\* process_uplink recording the transmission although the duty cycle denied
\* it.
process_uplink_recording_denied(stack, device_id, sf, transmission_time) ==
    LET duty == check_duty_cycle(stack.counts, device_id, transmission_time)
        collision == detect_collision(stack.history, device_id, sf,
                                      transmission_time)
        recorded == stack.history \cup
                        {[device_id |-> device_id,
                          spreading_factor |-> sf,
                          time |-> transmission_time]}
        counted == [duty.counts EXCEPT
                        ![device_id] = Append(@, transmission_time)]
        hour_ago == transmission_time - SecondsPerHour
    IN  IF ~duty.ok
        THEN [history |-> recorded, counts |-> counted,
              duty_cycle_ok |-> FALSE, no_collision |-> TRUE]
        ELSE [history |-> {tx \in recorded : tx.time > hour_ago},
              counts |-> counted,
              duty_cycle_ok |-> TRUE, no_collision |-> ~collision]

\* process_uplink recording only the transmissions that did not collide.
process_uplink_dropping_collided(stack, device_id, sf, transmission_time) ==
    LET duty == check_duty_cycle(stack.counts, device_id, transmission_time)
        collision == detect_collision(stack.history, device_id, sf,
                                      transmission_time)
        recorded == stack.history \cup
                        {[device_id |-> device_id,
                          spreading_factor |-> sf,
                          time |-> transmission_time]}
        counted == [duty.counts EXCEPT
                        ![device_id] = Append(@, transmission_time)]
        hour_ago == transmission_time - SecondsPerHour
    IN  IF ~duty.ok
        THEN [history |-> stack.history, counts |-> duty.counts,
              duty_cycle_ok |-> FALSE, no_collision |-> TRUE]
        ELSE IF collision
        THEN [history |-> stack.history, counts |-> duty.counts,
              duty_cycle_ok |-> TRUE, no_collision |-> FALSE]
        ELSE [history |-> {tx \in recorded : tx.time > hour_ago},
              counts |-> counted,
              duty_cycle_ok |-> TRUE, no_collision |-> ~collision]

\* process_uplink on the stack `stack` = [history, counts]; the result holds
\* the new stack and the returned pair.
process_uplink(stack, device_id, sf, transmission_time) ==
    LET duty == check_duty_cycle(stack.counts, device_id, transmission_time)
        collision == detect_collision(stack.history, device_id, sf,
                                      transmission_time)
        recorded == stack.history \cup
                        {[device_id |-> device_id,
                          spreading_factor |-> sf,
                          time |-> transmission_time]}
        counted == [duty.counts EXCEPT
                        ![device_id] = Append(@, transmission_time)]
        hour_ago == transmission_time - SecondsPerHour
    IN  IF ~duty.ok
        THEN [history |-> stack.history, counts |-> duty.counts,
              duty_cycle_ok |-> FALSE, no_collision |-> TRUE]
        ELSE [history |-> {tx \in recorded : tx.time > hour_ago},
              counts |-> counted,
              duty_cycle_ok |-> TRUE, no_collision |-> ~collision]

(***************************************************************************)
(* Wireless channel: the delivery decision.  calculate_per is 1.0 for a    *)
(* spreading factor outside the table, so `random() > per` is false; for a *)
(* valid spreading factor the outcome of the draw is the input `draw`.     *)
(***************************************************************************)
ValidSpreadingFactors == 7..12

\* is_packet_delivered without the error rate of 1.0 of calculate_per for a
\* spreading factor that is not in its table.
is_packet_delivered_any_sf(sf, draw) == draw

is_packet_delivered(sf, draw) ==
    IF sf \notin ValidSpreadingFactors THEN FALSE ELSE draw

(***************************************************************************)
(* SimulatorRunner                                                         *)
(***************************************************************************)
offline_threshold == device_offline_threshold_minutes * SecondsPerMinute

\* _update_device_status without the grace of a device never seen.
update_device_status_no_grace(seen, now) ==
    IF seen = None THEN OFFLINE
    ELSE IF now - ValueOf(seen) > offline_threshold THEN OFFLINE
    ELSE ONLINE

\* _update_device_status marking OFFLINE at the threshold (>= for >).
update_device_status_at_threshold(seen, now) ==
    IF seen = None THEN ONLINE
    ELSE IF now - ValueOf(seen) >= offline_threshold THEN OFFLINE
    ELSE ONLINE

\* _update_device_status: the status the device is given.
update_device_status(seen, now) ==
    IF seen = None THEN ONLINE
    ELSE IF now - ValueOf(seen) > offline_threshold THEN OFFLINE
    ELSE ONLINE

\* The delivery decision ignoring the collision check.
packet_delivered_ignoring_collision(duty_cycle_ok, no_collision, sf, draw) ==
    IF duty_cycle_ok THEN is_packet_delivered(sf, draw) ELSE FALSE

\* `packet_delivered`: False unless the duty cycle admitted the uplink and it
\* did not collide; then the channel decides.
packet_delivered(duty_cycle_ok, no_collision, sf, draw) ==
    IF duty_cycle_ok /\ no_collision
    THEN is_packet_delivered(sf, draw)
    ELSE FALSE

\* A Reading added only when it was delivered.
db_add_only_delivered(readings, reading) ==
    IF reading.packet_delivered THEN Append(readings, reading) ELSE readings

\* db.add(reading): the Reading joins the rows of the step.
db_add(readings, reading) == Append(readings, reading)

\* last_seen set on every uplink, delivered or not.
delivered_last_seen_always(seen, delivered, now) == Some(now)

\* `if packet_delivered: device.last_seen = self.current_time`.
delivered_last_seen(seen, delivered, now) ==
    IF delivered THEN Some(now) ELSE seen

(***************************************************************************)
(* Traffic generator and the operator's override                           *)
(***************************************************************************)
\* The levels the model follows, the first level of a device
\* (uniform(base_level, base_level + 20)) and the overrides the operator
\* sets (0 to 200 cm).
WaterLevels == 0 .. 60
FirstLevels == {20}
OverrideLevels == {0, 60}

\* generate_water_level: the first level is drawn near the base level, a
\* later one is the previous level plus the random change, never below 0.
\* generate_water_level returning new_level without `max(0.0, new_level)`.
generate_water_level_unclamped(previous_level, first, change) ==
    IF previous_level = None THEN first
    ELSE ValueOf(previous_level) + change

generate_water_level(previous_level, first, change) ==
    IF previous_level = None THEN first
    ELSE IF ValueOf(previous_level) + change < 0 THEN 0
    ELSE ValueOf(previous_level) + change

\* The override read with `if water_level_override:`, which drops 0.
water_level_if_truthy(water_level_override, generated) ==
    IF water_level_override # None /\ ValueOf(water_level_override) # 0
    THEN ValueOf(water_level_override)
    ELSE generated

\* `water_level`: the override when there is one, else the generated level.
water_level(water_level_override, generated) ==
    IF water_level_override # None
    THEN ValueOf(water_level_override)
    ELSE generated

(***************************************************************************)
(* The store and the alert service.  rs is the state a step works on:     *)
(* rs.readings, rs.status and rs.last_seen are the rows as the session     *)
(* holds them, rs.store is what the last commit made durable, rs.alerts    *)
(* the number of ACTIVE alert rows (an alert row is committed when it is   *)
(* added).                                                                 *)
(***************************************************************************)
HIGH_WATER_LEVEL == "high_water_level"
RATE_OF_RISE == "rate_of_rise"
DEVICE_OFFLINE == "device_offline"
AlertTypes == {HIGH_WATER_LEVEL, RATE_OF_RISE, DEVICE_OFFLINE}

db_commit(rs) ==
    [rs EXCEPT !.store = [readings |-> rs.readings,
                          status |-> rs.status,
                          last_seen |-> rs.last_seen]]

db_rollback(rs) ==
    [rs EXCEPT !.readings = rs.store.readings,
               !.status = rs.store.status,
               !.last_seen = rs.store.last_seen]

\* `db.add(alert); db.commit()`
add_alert(rs, device_id, alert_type) ==
    db_commit([rs EXCEPT !.alerts[device_id][alert_type] = @ + 1])

\* check_water_level_alerts resolving the ACTIVE alert of a level that is
\* back at or below the threshold.
check_water_level_alerts_resolving(rs, device_id, water_level_cm) ==
    IF water_level_cm <= water_level_threshold_cm
    THEN IF rs.alerts[device_id][HIGH_WATER_LEVEL] > 0
         THEN [rs EXCEPT !.alerts[device_id][HIGH_WATER_LEVEL] = @ - 1,
                         !.resolved[device_id][HIGH_WATER_LEVEL] = @ + 1]
         ELSE rs
    ELSE IF rs.alerts[device_id][HIGH_WATER_LEVEL] > 0 THEN rs
    ELSE add_alert(rs, device_id, HIGH_WATER_LEVEL)

check_water_level_alerts(rs, device_id, water_level_cm) ==
    IF water_level_cm <= water_level_threshold_cm THEN rs
    ELSE IF rs.alerts[device_id][HIGH_WATER_LEVEL] > 0 THEN rs
    ELSE add_alert(rs, device_id, HIGH_WATER_LEVEL)

\* check_rate_of_rise adding a row without looking for an ACTIVE one.
check_rate_of_rise_duplicating(rs, device_id, rising) ==
    IF ~rising THEN rs
    ELSE add_alert(rs, device_id, RATE_OF_RISE)

\* check_rate_of_rise; `rising` is the outcome of its computation on the
\* stored readings: there are two delivered ones and the rate is above the
\* threshold.
check_rate_of_rise(rs, device_id, rising) ==
    IF ~rising THEN rs
    ELSE IF rs.alerts[device_id][RATE_OF_RISE] > 0 THEN rs
    ELSE add_alert(rs, device_id, RATE_OF_RISE)

\* check_device_offline adding a row without looking for an ACTIVE one.
check_device_offline_duplicating(rs, device_id) ==
    IF rs.status[device_id] # OFFLINE THEN rs
    ELSE add_alert(rs, device_id, DEVICE_OFFLINE)

\* check_device_offline taking a row of any status for the existing alert.
check_device_offline_any_status(rs, device_id) ==
    IF rs.status[device_id] # OFFLINE THEN rs
    ELSE IF rs.alerts[device_id][DEVICE_OFFLINE]
              + rs.acknowledged[device_id][DEVICE_OFFLINE]
              + rs.resolved[device_id][DEVICE_OFFLINE] > 0 THEN rs
    ELSE add_alert(rs, device_id, DEVICE_OFFLINE)

check_device_offline(rs, device_id) ==
    IF rs.status[device_id] # OFFLINE THEN rs
    ELSE IF rs.alerts[device_id][DEVICE_OFFLINE] > 0 THEN rs
    ELSE add_alert(rs, device_id, DEVICE_OFFLINE)

process_alerts_for_device(rs, device_id, water_level_cm, rising) ==
    check_rate_of_rise(
        check_water_level_alerts(rs, device_id, water_level_cm),
        device_id, rising)

\* The alerts of a device evaluated only when its Reading was delivered.
device_alerts_if_delivered(rs, d, level, rising, delivered) ==
    LET checked == IF delivered
                   THEN process_alerts_for_device(rs, d, level, rising)
                   ELSE rs
    IN  IF checked.status[d] = OFFLINE
        THEN check_device_offline(checked, d)
        ELSE checked

\* The end of the per-device loop body: the alerts of the level, delivered
\* or not, then the offline alert of a device that went OFFLINE.
device_alerts(rs, d, level, rising, delivered) ==
    LET checked == process_alerts_for_device(rs, d, level, rising)
    IN  IF checked.status[d] = OFFLINE
        THEN check_device_offline(checked, d)
        ELSE checked

\* Reading(...) without `timestamp=`: the column takes its server default,
\* the wall clock, which has not moved on since the runner was constructed.
reading_timestamp_server_default(now) == CHOOSE t \in ResetTimes : TRUE

\* `timestamp=self.current_time` of the Reading the step creates.
reading_timestamp(now) == now

\* The body of the per-device loop of step(), for device d at time `now`.
\* rs is the state the loop works on, r the random outcomes of this turn:
\* r.draw of the channel, r.first and r.change of the traffic generator,
\* r.rising of the rate of rise, r.raises whether the store fails the alert
\* evaluation of this turn: the exception ends the turn, is logged, and the
\* loop goes on.
process_device(rs, d, now, r) ==
    LET generated == generate_water_level(rs.levels[d], r.first, r.change)
        level == water_level(rs.overrides[d], generated)
        up == process_uplink([history |-> rs.history, counts |-> rs.counts],
                             d, rs.sf[d], now)
        delivered == packet_delivered(up.duty_cycle_ok, up.no_collision,
                                      rs.sf[d], r.draw)
        reading == [device_id |-> d, timestamp |-> reading_timestamp(now),
                    water_level_cm |-> level,
                    packet_delivered |-> delivered]
        seen == delivered_last_seen(rs.last_seen[d], delivered, now)
        updated ==
            [rs EXCEPT
                !.levels[d] = Some(level),
                !.history = up.history,
                !.counts = up.counts,
                !.uplinks = Append(@, [device_id |-> d,
                                       spreading_factor |-> rs.sf[d],
                                       time |-> now,
                                       duty_cycle_ok |-> up.duty_cycle_ok,
                                       no_collision |-> up.no_collision]),
                !.readings = db_add(@, reading),
                !.last_seen[d] = seen,
                !.cache[d] = delivered_last_seen(@, delivered, now),
                !.status[d] = update_device_status(seen, now)]
    IN  IF r.raises
        THEN [updated EXCEPT !.errors = @ \cup {d}]
        ELSE device_alerts(updated, d, level, r.rising, delivered)

\* The loop `for device in devices` without its try: the turn that raises
\* is the last one.
RECURSIVE process_devices_aborting(_, _, _, _)
process_devices_aborting(rs, order, now, rand) ==
    IF order = <<>> THEN rs
    ELSE IF rand[Head(order)].raises
    THEN process_device(rs, Head(order), now, rand[Head(order)])
    ELSE process_devices_aborting(process_device(rs, Head(order), now,
                                                 rand[Head(order)]),
                                  Tail(order), now, rand)

\* The loop `for device in devices`, devices being the sequence `order`.
RECURSIVE process_devices(_, _, _, _)
process_devices(rs, order, now, rand) ==
    IF order = <<>> THEN rs
    ELSE process_devices(process_device(rs, Head(order), now,
                                        rand[Head(order)]),
                         Tail(order), now, rand)

\* The loop `for device in all_devices`: the offline alert of every device
\* that is OFFLINE or in MAINTENANCE.
RECURSIVE check_offline_devices(_, _)
check_offline_devices(rs, devices) ==
    IF devices = {} THEN rs
    ELSE LET d == CHOOSE x \in devices : TRUE
             checked == IF rs.status[d] = OFFLINE
                        THEN check_device_offline(rs, d)
                        ELSE IF rs.status[d] = MAINTENANCE
                        THEN check_device_offline(rs, d)
                        ELSE rs
         IN  check_offline_devices(checked, devices \ {d})

\* The commit that ends the step, clearing the stack as well when it fails.
final_commit_resetting_stack(rs, commit_ok) ==
    IF commit_ok THEN db_commit(rs)
    ELSE [db_rollback(rs) EXCEPT !.history = {},
                                 !.counts = [d \in DeviceIds |-> <<>>]]

\* The commit that ends the step, its failure undoing the device_last_seen
\* cache along with the session.
final_commit_restoring_cache(rs, commit_ok) ==
    IF commit_ok THEN db_commit(rs)
    ELSE [db_rollback(rs) EXCEPT !.cache = rs.store.last_seen]

\* The commit that ends the step: on an exception the session is rolled back.
final_commit(rs, commit_ok) ==
    IF commit_ok THEN db_commit(rs) ELSE db_rollback(rs)

\* The query without its filter on the status.
OnlineDevices_all == DeviceIds

\* The query leaving out only the OFFLINE devices.
OnlineDevices_not_offline == {d \in DeviceIds : status[d] # OFFLINE}

\* The rows of the query for ONLINE devices, in any order the store may
\* return them (the query has no ORDER BY).
OnlineDevices == {d \in DeviceIds : status[d] = ONLINE}

Orders(S) ==
    {o \in [1..Cardinality(S) -> S] :
        \A i, j \in 1..Cardinality(S) : i # j => o[i] # o[j]}

Init ==
    /\ current_time = 0
    /\ is_running = FALSE
    /\ transmission_history = {}
    /\ device_message_counts = [d \in DeviceIds |-> <<>>]
    /\ device_last_seen = [d \in DeviceIds |-> None]
    /\ spreading_factor \in FleetSF
    /\ status \in FleetStatus
    /\ last_seen = [d \in DeviceIds |-> None]
    /\ step_uplinks = <<>>
    /\ step_readings = <<>>
    /\ mac_calls = 0
    /\ water_level_overrides = [d \in DeviceIds |-> None]
    /\ device_last_levels = [d \in DeviceIds |-> None]
    /\ alerts = [d \in DeviceIds |-> [t \in AlertTypes |-> 0]]
    /\ stored_readings = <<>>
    /\ commit_failed = FALSE
    /\ session_overrides = [d \in DeviceIds |-> None]
    /\ step_errors = {}
    /\ acknowledged_alerts = [d \in DeviceIds |-> [t \in AlertTypes |-> 0]]
    /\ resolved_alerts = [d \in DeviceIds |-> [t \in AlertTypes |-> 0]]
    /\ last_call = Call("__init__")

start ==
    /\ is_running' = TRUE
    /\ last_call' = Call("start")
    /\ UNCHANGED <<current_time, transmission_history,
                   device_message_counts, device_last_seen,
                   spreading_factor, status, last_seen, step_uplinks,
                   step_readings, mac_calls, device_last_levels, alert_vars>>

stop ==
    /\ is_running' = FALSE
    /\ last_call' = Call("stop")
    /\ UNCHANGED <<current_time, transmission_history,
                   device_message_counts, device_last_seen,
                   spreading_factor, status, last_seen, step_uplinks,
                   step_readings, mac_calls, device_last_levels, alert_vars>>

\* reset() emptying the overrides as well.
reset_clearing_overrides ==
    /\ transmission_history' = {}
    /\ device_message_counts' = [d \in DeviceIds |-> <<>>]
    /\ device_last_seen' = [d \in DeviceIds |-> None]
    /\ device_last_levels' = [d \in DeviceIds |-> None]
    /\ water_level_overrides' = [d \in DeviceIds |-> None]
    /\ current_time' \in ResetTimes
    /\ last_call' = Call("reset")
    /\ UNCHANGED <<is_running, spreading_factor, status, last_seen,
                   step_uplinks, step_readings, mac_calls, alerts,
                   stored_readings, commit_failed, session_overrides,
                   step_errors, acknowledged_alerts, resolved_alerts>>

\* reset(): the clock is set to the wall clock, which is not related to the
\* simulated time.
reset ==
    /\ transmission_history' = {}
    /\ device_message_counts' = [d \in DeviceIds |-> <<>>]
    /\ device_last_seen' = [d \in DeviceIds |-> None]
    /\ device_last_levels' = [d \in DeviceIds |-> None]
    /\ current_time' \in ResetTimes
    /\ last_call' = Call("reset")
    /\ UNCHANGED <<is_running, spreading_factor, status, last_seen,
                   step_uplinks, step_readings, mac_calls, alert_vars>>

\* The outcomes a step may meet: the levels and changes the traffic
\* generator draws, whether a rate of rise is found, whether the last commit
\* succeeds.  Calm: still water and a store that does not fail.  Rough:
\* water that rises and falls.  Failing: the store may fail as well.
Calm == [firsts |-> FirstLevels, changes |-> {0}, rising |-> {FALSE},
         commit |-> {TRUE}, raises |-> {FALSE}]
Rough == [firsts |-> FirstLevels, changes |-> {-40, 40}, rising |-> {FALSE},
          commit |-> {TRUE}, raises |-> {FALSE}]
Failing == [firsts |-> FirstLevels, changes |-> {-40, 40},
            rising |-> BOOLEAN, commit |-> BOOLEAN, raises |-> {FALSE}]
\* Unreliable: still water and a store whose last commit may fail.
Unreliable == [firsts |-> FirstLevels, changes |-> {0}, rising |-> {FALSE},
               commit |-> BOOLEAN, raises |-> {FALSE}]
\* Faulty: the alert evaluation of a device may raise.
Faulty == [firsts |-> FirstLevels, changes |-> {-40, 40},
           rising |-> {FALSE}, commit |-> {TRUE}, raises |-> BOOLEAN]

\* The body of step(time_delta_seconds, force) after its early return, its
\* random outcomes and the outcome of its last commit drawn from env.
step_body(time_delta_seconds, env) ==
    /\ \E order \in Orders(OnlineDevices),
          rand \in [OnlineDevices ->
                      [draw : BOOLEAN, first : env.firsts,
                       change : env.changes, rising : env.rising,
                       raises : env.raises]],
          commit_ok \in env.commit :
        LET now == current_time + time_delta_seconds
            rs0 == [history |-> transmission_history,
                    counts |-> device_message_counts,
                    sf |-> spreading_factor,
                    status |-> status,
                    last_seen |-> last_seen,
                    cache |-> device_last_seen,
                    levels |-> device_last_levels,
                    overrides |-> water_level_overrides,
                    alerts |-> alerts,
                    acknowledged |-> acknowledged_alerts,
                    resolved |-> resolved_alerts,
                    store |-> [readings |-> <<>>, status |-> status,
                               last_seen |-> last_seen],
                    uplinks |-> <<>>,
                    readings |-> <<>>,
                    errors |-> {}]
        IN  \E processed \in {process_devices(rs0, order, now, rand)} :
            \E rs \in {final_commit(check_offline_devices(processed,
                                                          DeviceIds),
                                    commit_ok)} :
            /\ \A d \in DeviceIds :
                processed.levels[d] # None
                    => ~(\A top \in WaterLevels :
                            ValueOf(processed.levels[d]) > top)
            /\ current_time' = now
            /\ transmission_history' = rs.history
            /\ device_message_counts' = rs.counts
            /\ device_last_seen' = rs.cache
            /\ device_last_levels' = rs.levels
            /\ status' = rs.status
            /\ last_seen' = rs.last_seen
            /\ alerts' = rs.alerts
            /\ step_uplinks' = rs.uplinks
            /\ step_readings' = processed.readings
            /\ stored_readings' = rs.store.readings
            /\ commit_failed' = ~commit_ok
            /\ step_errors' = rs.errors
            /\ acknowledged_alerts' = rs.acknowledged
            /\ resolved_alerts' = rs.resolved
    /\ UNCHANGED <<spreading_factor, mac_calls, water_level_overrides,
                   session_overrides>>

\* `if not self.is_running and not force: return`, with the test for
\* force left out.
step_gate_running_only(running, force) == running

\* `if not self.is_running and not force: return`: whether step goes on.
step_gate(running, force) == running \/ force

\* step(time_delta_seconds, force) when it is not the early return.
step(time_delta_seconds, force, env) ==
    /\ step_gate(is_running, force)
    /\ step_body(time_delta_seconds, env)
    /\ last_call' = StepCall(time_delta_seconds, force)
    /\ UNCHANGED is_running

\* step(time_delta_seconds, force) returning at once.
step_not_running(time_delta_seconds, force) ==
    /\ ~step_gate(is_running, force)
    /\ last_call' = StepCall(time_delta_seconds, force)
    /\ UNCHANGED program_vars

Next ==
    \/ start
    \/ stop
    \/ current_time <= MaxResetTime /\ reset
    \/ \E delta \in Deltas, force \in BOOLEAN :
            step_not_running(delta, force)
    \/ \E delta \in Deltas, force \in BOOLEAN :
            /\ current_time + delta <= MaxTime
            /\ step(delta, force, Calm)

Spec == Init /\ [][Next]_vars

(***************************************************************************)
(* The runner stepped by hand (force = True) with steps of the default     *)
(* interval and of one hour.                                               *)
(***************************************************************************)
HourNext ==
    \E delta \in HourDeltas :
        /\ current_time + delta <= MaxHourTime
        /\ step(delta, TRUE, Calm)

HourSpec == Init /\ [][HourNext]_vars

(***************************************************************************)
(* The stack on its own: process_uplink and reset called directly, for any *)
(* device and spreading factor, at times that do not decrease.             *)
(* current_time is the time of the latest call, step_uplinks its result.   *)
(***************************************************************************)
MacInit ==
    /\ Init
    /\ spreading_factor = [d \in DeviceIds |-> 7]
    /\ status = [d \in DeviceIds |-> ONLINE]

MacUplink(device_id, sf, dt) ==
    LET now == current_time + dt
        up == process_uplink([history |-> transmission_history,
                              counts |-> device_message_counts],
                             device_id, sf, now)
    IN  /\ mac_calls' = mac_calls + 1
        /\ current_time' = now
        /\ transmission_history' = up.history
        /\ device_message_counts' = up.counts
        /\ step_uplinks' = <<[device_id |-> device_id,
                              spreading_factor |-> sf,
                              time |-> now,
                              duty_cycle_ok |-> up.duty_cycle_ok,
                              no_collision |-> up.no_collision]>>
        /\ UNCHANGED <<is_running, device_last_seen, spreading_factor,
                       status, last_seen, step_readings,
                       device_last_levels, alert_vars, last_call>>

\* LoRaWANStack.reset()
MacReset ==
    /\ transmission_history' = {}
    /\ device_message_counts' = [d \in DeviceIds |-> <<>>]
    /\ UNCHANGED <<current_time, is_running, device_last_seen,
                   spreading_factor, status, last_seen, step_uplinks,
                   step_readings, mac_calls, device_last_levels, alert_vars,
                   last_call>>

MacNext ==
    \/ \E d \in DeviceIds, sf \in SpreadingFactors, dt \in MacDeltas :
            /\ mac_calls < MaxMacCalls
            /\ MacUplink(d, sf, dt)
    \/ MacReset

MacSpec == MacInit /\ [][MacNext]_vars

(***************************************************************************)
(* The runner stepped by hand on rough water and a store whose last commit *)
(* may fail, in steps just longer than the offline threshold, while the    *)
(* operator sets water-level overrides and acknowledges alerts.            *)
(***************************************************************************)
AlertDeltas == {offline_threshold + SecondsPerMinute}
MaxAlertTime == MaxAlertSteps * (offline_threshold + SecondsPerMinute)

\* The page copying its overrides into the runner's dict when it is
\* rendered: dict.update, which sets the keys of the page's dict and
\* removes none.
sync_overrides_replacing(runner_overrides, page_overrides) == page_overrides

sync_overrides(runner_overrides, page_overrides) ==
    [d \in DeviceIds |->
        IF page_overrides[d] # None THEN page_overrides[d]
        ELSE runner_overrides[d]]

\* "Set Level": the override of one device, which the page copies into the
\* runner's dict when it is rendered again.
set_water_level_override(device_id, manual_level) ==
    /\ session_overrides' =
          [session_overrides EXCEPT ![device_id] = Some(manual_level)]
    /\ water_level_overrides' =
          sync_overrides(water_level_overrides, session_overrides')
    /\ last_call' = Call("set_water_level_override")
    /\ UNCHANGED <<current_time, is_running, transmission_history,
                   device_message_counts, device_last_seen,
                   spreading_factor, status, last_seen, step_uplinks,
                   step_readings, mac_calls, device_last_levels, alerts,
                   stored_readings, commit_failed, step_errors,
                   acknowledged_alerts, resolved_alerts>>

\* "Clear All Overrides", shown while the page has overrides: the page's
\* dict is emptied, and the page is rendered again.
clear_overrides ==
    /\ \E d \in DeviceIds : session_overrides[d] # None
    /\ session_overrides' = [d \in DeviceIds |-> None]
    /\ water_level_overrides' =
          sync_overrides(water_level_overrides, session_overrides')
    /\ last_call' = Call("clear_overrides")
    /\ UNCHANGED <<current_time, is_running, transmission_history,
                   device_message_counts, device_last_seen,
                   spreading_factor, status, last_seen, step_uplinks,
                   step_readings, mac_calls, device_last_levels, alerts,
                   stored_readings, commit_failed, step_errors,
                   acknowledged_alerts, resolved_alerts>>

\* "Acknowledge", offered for an ACTIVE alert of the device: the row is
\* ACKNOWLEDGED.
acknowledge_alert(device_id, alert_type) ==
    /\ alerts[device_id][alert_type] > 0
    /\ alerts' = [alerts EXCEPT ![device_id][alert_type] = @ - 1]
    /\ acknowledged_alerts' =
          [acknowledged_alerts EXCEPT ![device_id][alert_type] = @ + 1]
    /\ last_call' = Call("acknowledge_alert")
    /\ UNCHANGED <<current_time, is_running, transmission_history,
                   device_message_counts, device_last_seen,
                   spreading_factor, status, last_seen, step_uplinks,
                   step_readings, mac_calls, device_last_levels,
                   water_level_overrides, stored_readings, commit_failed,
                   session_overrides, step_errors, resolved_alerts>>

\* resolve_alert(db, alert_id) on a row of the device that is not RESOLVED
\* yet: the service sets the status of any row it is given, ACTIVE
\* (from_active) or ACKNOWLEDGED.
resolve_alert(device_id, alert_type, from_active) ==
    /\ IF from_active
       THEN /\ alerts[device_id][alert_type] > 0
            /\ alerts' = [alerts EXCEPT ![device_id][alert_type] = @ - 1]
            /\ UNCHANGED acknowledged_alerts
       ELSE /\ acknowledged_alerts[device_id][alert_type] > 0
            /\ acknowledged_alerts' =
                  [acknowledged_alerts EXCEPT
                      ![device_id][alert_type] = @ - 1]
            /\ UNCHANGED alerts
    /\ resolved_alerts' =
          [resolved_alerts EXCEPT ![device_id][alert_type] = @ + 1]
    /\ last_call' = Call("resolve_alert")
    /\ UNCHANGED <<current_time, is_running, transmission_history,
                   device_message_counts, device_last_seen,
                   spreading_factor, status, last_seen, step_uplinks,
                   step_readings, mac_calls, device_last_levels,
                   water_level_overrides, stored_readings, commit_failed,
                   session_overrides, step_errors>>

AlertNext ==
    \/ \E delta \in AlertDeltas :
            /\ current_time + delta <= MaxAlertTime
            /\ step(delta, TRUE, Rough)
    \/ \E d \in DeviceIds, level \in OverrideLevels :
            set_water_level_override(d, level)
    \/ \E d \in DeviceIds, t \in AlertTypes : acknowledge_alert(d, t)

AlertSpec == Init /\ [][AlertNext]_vars

(***************************************************************************)
(* The runner stepped by hand on rough water when the commit that ends a   *)
(* step may fail.                                                          *)
(***************************************************************************)
MaxStoreTime == MaxStoreSteps * (offline_threshold + SecondsPerMinute)

StoreNext ==
    \E delta \in AlertDeltas :
        /\ current_time + delta <= MaxStoreTime
        /\ step(delta, TRUE, Failing)

StoreSpec == Init /\ [][StoreNext]_vars

(***************************************************************************)
(* The runner started, stepped by hand and reset while the operator sets   *)
(* water-level overrides.                                                  *)
(***************************************************************************)
ResetNext ==
    \/ start
    \/ reset
    \/ \E d \in DeviceIds :
            set_water_level_override(d, water_level_threshold_cm + 10)
    \/ \E delta \in Deltas :
            /\ current_time + delta <= MaxResetTime
            /\ step(delta, TRUE, Calm)

ResetSpec == Init /\ [][ResetNext]_vars

(***************************************************************************)
(* The runner stepped by hand with any step size an int can be: positive,  *)
(* zero or negative.  The simulated time stays between the time of         *)
(* construction and MaxDeltaTime, the ledgers below MaxDeltaCalls entries. *)
(***************************************************************************)
MaxDeltaTime == MaxDeltaSteps * transmission_interval
AnyDeltas == {-transmission_interval, 0, transmission_interval}

DeltaNext ==
    \E delta \in AnyDeltas :
        /\ current_time + delta >= 0
        /\ current_time + delta <= MaxDeltaTime
        /\ \A d \in DeviceIds : Len(device_message_counts[d]) < MaxDeltaCalls
        /\ step(delta, TRUE, Calm)

DeltaSpec == Init /\ [][DeltaNext]_vars

(***************************************************************************)
(* The runner stepped by hand on rough water when the alert evaluation of  *)
(* a device may raise.                                                     *)
(***************************************************************************)
MaxFaultTime == MaxFaultSteps * (offline_threshold + SecondsPerMinute)

FaultNext ==
    \E delta \in AlertDeltas :
        /\ current_time + delta <= MaxFaultTime
        /\ step(delta, TRUE, Faulty)

FaultSpec == Init /\ [][FaultNext]_vars

(***************************************************************************)
(* The simulation page driving the runner: the operator starts and pauses  *)
(* the simulation, asks for single steps, sets and clears overrides, and   *)
(* the page advances a running simulation on its own.  The last commit of  *)
(* a step may fail.                                                        *)
(***************************************************************************)
MaxPageTime == MaxPageSteps * transmission_interval

\* A call of a handler of the page with a step size.
PageCall(op, time_delta_seconds) ==
    [op |-> op, time_delta_seconds |-> time_delta_seconds, force |-> TRUE]

\* What step() raises to its caller when its last commit failed: the
\* exception is caught and logged, the session rolled back, nothing raised.
step_raises(failed) == FALSE

\* "Step Forward" stepping whether the simulation runs or not.
step_forward_unguarded(time_delta, env) ==
    /\ step_gate(is_running, TRUE)
    /\ step_body(time_delta, env)
    /\ last_call' = PageCall("step_forward", time_delta)
    /\ UNCHANGED is_running

\* "Step Forward": a warning while the simulation runs, else
\* step(time_delta_seconds=time_delta, force=True).
step_forward(time_delta, env) ==
    /\ last_call' = PageCall("step_forward", time_delta)
    /\ IF is_running
       THEN UNCHANGED program_vars
       ELSE /\ step_gate(is_running, TRUE)
            /\ step_body(time_delta, env)
            /\ UNCHANGED is_running

\* The end of the page while the simulation runs: step() with its default
\* step size, and stop() when it raises.
auto_advance(env) ==
    /\ is_running
    /\ step_gate(is_running, FALSE)
    /\ step_body(transmission_interval, env)
    /\ last_call' = PageCall("auto_advance", transmission_interval)
    /\ is_running' = IF step_raises(commit_failed') THEN FALSE
                     ELSE is_running

PageNext ==
    \/ start
    \/ stop
    \/ \E d \in DeviceIds :
            set_water_level_override(d, water_level_threshold_cm + 10)
    \/ clear_overrides
    \/ \E delta \in Deltas :
            /\ current_time + delta <= MaxPageTime
            /\ step_forward(delta, Unreliable)
    \/ /\ current_time + transmission_interval <= MaxPageTime
       /\ auto_advance(Unreliable)

PageSpec == Init /\ [][PageNext]_vars

(***************************************************************************)
(* The runner stepped by hand on a fleet whose rows hold any integer as    *)
(* spreading factor: the column is an Integer without a constraint.        *)
(***************************************************************************)
AnySpreadingFactors == {6, 7, 13}
MaxSfTime == MaxSfSteps * transmission_interval

SfInit ==
    /\ current_time = 0
    /\ is_running = FALSE
    /\ transmission_history = {}
    /\ device_message_counts = [d \in DeviceIds |-> <<>>]
    /\ device_last_seen = [d \in DeviceIds |-> None]
    /\ spreading_factor \in [DeviceIds -> AnySpreadingFactors]
    /\ status \in FleetStatus
    /\ last_seen = [d \in DeviceIds |-> None]
    /\ step_uplinks = <<>>
    /\ step_readings = <<>>
    /\ mac_calls = 0
    /\ water_level_overrides = [d \in DeviceIds |-> None]
    /\ device_last_levels = [d \in DeviceIds |-> None]
    /\ alerts = [d \in DeviceIds |-> [t \in AlertTypes |-> 0]]
    /\ stored_readings = <<>>
    /\ commit_failed = FALSE
    /\ session_overrides = [d \in DeviceIds |-> None]
    /\ step_errors = {}
    /\ acknowledged_alerts = [d \in DeviceIds |-> [t \in AlertTypes |-> 0]]
    /\ resolved_alerts = [d \in DeviceIds |-> [t \in AlertTypes |-> 0]]
    /\ last_call = Call("__init__")

SfNext ==
    \E delta \in Deltas :
        /\ current_time + delta <= MaxSfTime
        /\ step(delta, TRUE, Calm)

SfSpec == SfInit /\ [][SfNext]_vars

(***************************************************************************)
(* The stack on its own, called often enough to use up the duty cycle of a *)
(* device: process_uplink for any device, at the time of the call before,  *)
(* half an hour or an hour later.                                          *)
(***************************************************************************)
LedgerDeltas == {0, SecondsPerHour \div 2, SecondsPerHour}

LedgerNext ==
    \E d \in DeviceIds, dt \in LedgerDeltas :
        /\ mac_calls < MaxLedgerCalls
        /\ MacUplink(d, spreading_factor[d], dt)

LedgerSpec == MacInit /\ [][LedgerNext]_vars

(***************************************************************************)
(* The runner stepped by hand on rough water while the alerts it raises    *)
(* are acknowledged and resolved.                                          *)
(***************************************************************************)
MaxLifecycleTime == MaxLifecycleSteps * transmission_interval

LifecycleNext ==
    \/ /\ current_time + transmission_interval <= MaxLifecycleTime
       /\ step(transmission_interval, TRUE, Rough)
    \/ \E d \in DeviceIds, t \in AlertTypes : acknowledge_alert(d, t)
    \/ \E d \in DeviceIds, t \in AlertTypes, from_active \in BOOLEAN :
            resolve_alert(d, t, from_active)

LifecycleSpec == Init /\ [][LifecycleNext]_vars

(***************************************************************************)
(* The runner started, stopped and stepped, never reset, with steps of one *)
(* and of two intervals, on a store whose last commit may fail.            *)
(***************************************************************************)
MaxRunTime == MaxRunSteps * transmission_interval
RunDeltas == {transmission_interval, 2 * transmission_interval}

RunNext ==
    \/ start
    \/ stop
    \/ \E delta \in RunDeltas, force \in BOOLEAN :
            step_not_running(delta, force)
    \/ \E delta \in RunDeltas, force \in BOOLEAN :
            /\ current_time + delta <= MaxRunTime
            /\ step(delta, force, Unreliable)

RunSpec == Init /\ [][RunNext]_vars

(***************************************************************************)
(* Properties                                                              *)
(***************************************************************************)

\* A step of the runner was executed: only step() moves the clock forward.
StepTaken == current_time' > current_time

\* process_uplink was called directly on the stack.
MacCalled == mac_calls' = mac_calls + 1

\* The uplinks and readings of the latest executed step, when the state is
\* the one that step left (a reset in between empties the stack).
LatestUplinks == {i \in DOMAIN step_uplinks : step_uplinks[i].time = current_time}

InWindow(t, now) ==
    /\ t >= now - collision_window
    /\ t <= now + collision_window

\* C1: a Reading is marked delivered only if process_uplink returned
\* duty_cycle_ok = true and no_collision = true for that device in that step.
C1_DeliveredOnlyIfAdmittedAndClear ==
    /\ Len(step_readings) = Len(step_uplinks)
    /\ \A i \in DOMAIN step_readings :
        /\ step_readings[i].device_id = step_uplinks[i].device_id
        /\ step_readings[i].timestamp = step_uplinks[i].time
        /\ step_readings[i].packet_delivered =>
              (step_uplinks[i].duty_cycle_ok /\ step_uplinks[i].no_collision)

\* A step in which one Reading is delivered and another device's uplink
\* collided and is not delivered.
C1_Witness ==
    \E i, j \in DOMAIN step_readings :
        /\ step_readings[i].packet_delivered
        /\ ~step_uplinks[j].no_collision
        /\ ~step_readings[j].packet_delivered

\* C2: with max_messages_per_hour admitted uplinks of a device inside the
\* hour before a call, the call is denied; a call made more than one hour
\* after all recorded uplinks of the device is admitted.
C2_DutyCycleWindow ==
    [][StepTaken =>
        \A i \in DOMAIN step_uplinks' :
            LET u == step_uplinks'[i]
                before == device_message_counts[u.device_id]
                in_span == {k \in DOMAIN before :
                                before[k] > u.time - SecondsPerHour}
            IN  /\ Cardinality(in_span) >= max_messages_per_hour
                      => ~u.duty_cycle_ok
                /\ (\A k \in DOMAIN before :
                        before[k] < u.time - SecondsPerHour)
                      => u.duty_cycle_ok]_vars

\* A device stepped every transmission_interval from the start is denied at
\* step 11 (time 3300); the only way to its ledger holding nothing but the
\* uplink of time 6900 is the jump of one hour from there: the uplink is
\* admitted again more than an hour after the ten admitted ones.
C2_Witness ==
    \E i \in DOMAIN step_uplinks :
        /\ step_uplinks[i].time = 11 * transmission_interval + SecondsPerHour
        /\ step_uplinks[i].time = current_time
        /\ step_uplinks[i].duty_cycle_ok
        /\ device_message_counts[step_uplinks[i].device_id] = <<current_time>>

\* C3: two distinct devices with the same spreading factor, both admitted
\* at the same instant, both get no_collision = false.
C3_BothCollide ==
    \A i, j \in DOMAIN step_uplinks :
        (/\ i # j
         /\ step_uplinks[i].device_id # step_uplinks[j].device_id
         /\ step_uplinks[i].spreading_factor = step_uplinks[j].spreading_factor
         /\ step_uplinks[i].time = step_uplinks[j].time
         /\ step_uplinks[i].duty_cycle_ok
         /\ step_uplinks[j].duty_cycle_ok)
        => (~step_uplinks[i].no_collision /\ ~step_uplinks[j].no_collision)

\* C4: a collision is reported only when the history holds a transmission of
\* another device with the same spreading factor inside the window.
C4_CollisionOnlyOtherDeviceSameSF ==
    [][MacCalled =>
        LET u == step_uplinks'[1]
        IN  ~u.no_collision =>
                \E tx \in transmission_history :
                    /\ tx.device_id # u.device_id
                    /\ tx.spreading_factor = u.spreading_factor
                    /\ InWindow(tx.time, u.time)]_vars

\* An uplink without collision although the history holds, inside the window,
\* an earlier transmission of the same device with the same spreading factor
\* and a transmission of another device with another spreading factor.
C4_Witness ==
    /\ mac_calls > 0
    /\ step_uplinks[1].duty_cycle_ok
    /\ step_uplinks[1].no_collision
    /\ \E tx \in transmission_history :
        /\ tx.device_id = step_uplinks[1].device_id
        /\ tx.spreading_factor = step_uplinks[1].spreading_factor
        /\ tx.time < step_uplinks[1].time
        /\ InWindow(tx.time, step_uplinks[1].time)
    /\ \E tx \in transmission_history :
        /\ tx.device_id # step_uplinks[1].device_id
        /\ tx.spreading_factor # step_uplinks[1].spreading_factor
        /\ InWindow(tx.time, step_uplinks[1].time)

\* C5: a denied process_uplink returns (false, true) and records nothing:
\* the history gains no entry of the device and its ledger gains no entry.
C5_DeniedRecordsNothing ==
    [][StepTaken =>
        \A i \in DOMAIN step_uplinks' :
            LET u == step_uplinks'[i]
                d == u.device_id
            IN  ~u.duty_cycle_ok =>
                    /\ u.no_collision
                    /\ {tx \in transmission_history' : tx.device_id = d}
                          \subseteq transmission_history
                    /\ Len(device_message_counts'[d])
                          <= Len(device_message_counts[d])
                    /\ \A k \in DOMAIN device_message_counts'[d] :
                          device_message_counts'[d][k] # u.time]_vars

\* A step in which an uplink was denied by the duty cycle.
C5_Witness ==
    \E i \in LatestUplinks : ~step_uplinks[i].duty_cycle_ok

\* C6: every admitted uplink is recorded in the history and in the device's
\* ledger, whether or not it collided.
C6_AdmittedIsRecorded ==
    [][MacCalled =>
        LET u == step_uplinks'[1]
            d == u.device_id
            Count(led) == Cardinality({k \in DOMAIN led : led[k] = u.time})
        IN  u.duty_cycle_ok =>
                /\ [device_id |-> d,
                    spreading_factor |-> u.spreading_factor,
                    time |-> u.time] \in transmission_history'
                /\ Count(device_message_counts'[d])
                      = Count(device_message_counts[d]) + 1]_vars

\* An admitted uplink that collided and is in the history and in the ledger.
C6_Witness ==
    /\ mac_calls > 0
    /\ step_uplinks[1].duty_cycle_ok
    /\ ~step_uplinks[1].no_collision
    /\ [device_id |-> step_uplinks[1].device_id,
        spreading_factor |-> step_uplinks[1].spreading_factor,
        time |-> step_uplinks[1].time] \in transmission_history
    /\ \E k \in DOMAIN device_message_counts[step_uplinks[1].device_id] :
        device_message_counts[step_uplinks[1].device_id][k]
            = step_uplinks[1].time

\* C7 as stated: after the uplinks of a step at time `now`, neither the
\* history nor the ledger of any device holds an entry older than one hour
\* before `now`.
C7_EverythingPruned ==
    LatestUplinks # {} =>
        /\ \A tx \in transmission_history :
              tx.time >= current_time - SecondsPerHour
        /\ \A d \in DeviceIds : \A k \in DOMAIN device_message_counts[d] :
              device_message_counts[d][k] >= current_time - SecondsPerHour

\* C7 as amended: the ledger of each device that called holds no entry older
\* than one hour before `now`, and neither does the history when one of the
\* calls was admitted.
C7_CallerPruned ==
    /\ \A i \in LatestUplinks :
        \A k \in DOMAIN device_message_counts[step_uplinks[i].device_id] :
            device_message_counts[step_uplinks[i].device_id][k]
                >= current_time - SecondsPerHour
    /\ (\E i \in LatestUplinks : step_uplinks[i].duty_cycle_ok) =>
        \A tx \in transmission_history :
            tx.time >= current_time - SecondsPerHour

\* An uplink admitted an hour after the device's first one with a full
\* ledger: the uplink of the first step was pruned to admit it.
C7_Witness ==
    \E i \in LatestUplinks :
        /\ step_uplinks[i].duty_cycle_ok
        /\ current_time >= SecondsPerHour + transmission_interval
        /\ Len(device_message_counts[step_uplinks[i].device_id])
              = max_messages_per_hour

\* C8: an executed step emits exactly one Reading, with the new time, for
\* each device that was ONLINE when the step began, and no other Reading.
C8_OneReadingPerOnlineDevice ==
    [][StepTaken =>
        /\ \A d \in DeviceIds :
              Cardinality({i \in DOMAIN step_readings' :
                              step_readings'[i].device_id = d})
                  = IF status[d] = ONLINE THEN 1 ELSE 0
        /\ \A i \in DOMAIN step_readings' :
              step_readings'[i].timestamp = current_time']_vars

\* A step that processed every device and emitted a Reading for an uplink
\* the duty cycle denied.
C8_Witness ==
    /\ \E i \in LatestUplinks :
          /\ ~step_uplinks[i].duty_cycle_ok
          /\ ~step_readings[i].packet_delivered
          /\ step_readings[i].timestamp = current_time
    /\ Len(step_readings) = Cardinality(DeviceIds)

\* C9: in a step, a device's last_seen becomes the step's time when its
\* Reading is delivered and is left as it was when it is not.
C9_LastSeenIffDelivered ==
    [][StepTaken =>
        \A i \in DOMAIN step_readings' :
            LET r == step_readings'[i]
            IN  /\ r.packet_delivered
                      => last_seen'[r.device_id] = Some(current_time')
                /\ ~r.packet_delivered
                      => last_seen'[r.device_id] = last_seen[r.device_id]]_vars

\* A step with a delivered Reading (last_seen is the step's time) and an
\* undelivered one of a device seen before (last_seen is older).
C9_Witness ==
    \E i, j \in DOMAIN step_readings :
        /\ step_readings[i].timestamp = current_time
        /\ step_readings[i].packet_delivered
        /\ last_seen[step_readings[i].device_id] = Some(current_time)
        /\ ~step_readings[j].packet_delivered
        /\ last_seen[step_readings[j].device_id] # None
        /\ last_seen[step_readings[j].device_id] # Some(current_time)

C11_NeverSeenGoesOffline ==
    \A i \in DOMAIN step_readings :
        (/\ step_readings[i].timestamp = current_time
         /\ current_time > offline_threshold
         /\ last_seen[step_readings[i].device_id] = None)
        => status[step_readings[i].device_id] = OFFLINE

C13_StatusFollowsStaleness ==
    [][StepTaken =>
        \A d \in DeviceIds :
            status'[d] # MAINTENANCE =>
                (status'[d] = OFFLINE <=>
                    /\ last_seen'[d] # None
                    /\ current_time' - ValueOf(last_seen'[d])
                          > offline_threshold)]_vars

\* C14: no operation of the runner puts a device into MAINTENANCE or takes
\* one out of it.
C14_MaintenanceUntouched ==
    [][\A d \in DeviceIds :
          (status'[d] = MAINTENANCE) <=> (status[d] = MAINTENANCE)]_vars

\* A running simulation past the offline threshold in which a device is in
\* MAINTENANCE and another has been marked OFFLINE by a step.
C14_Witness ==
    /\ is_running
    /\ current_time > offline_threshold
    /\ \E d, e \in DeviceIds :
        /\ status[d] = MAINTENANCE
        /\ status[e] = OFFLINE
        /\ last_seen[e] # None

\* C15: after an executed step every device in MAINTENANCE has an ACTIVE
\* DEVICE_OFFLINE alert, as every OFFLINE device has.
C15_MaintenanceHasOfflineAlert ==
    [][StepTaken =>
        \A d \in DeviceIds :
            status'[d] \in {OFFLINE, MAINTENANCE}
                => alerts'[d][DEVICE_OFFLINE] > 0]_vars

\* C16: after every executed step each OFFLINE device, whether a step marked
\* it or it was set OFFLINE from outside, has exactly one ACTIVE
\* DEVICE_OFFLINE alert.
C16_OfflineHasOneAlert ==
    [][StepTaken =>
        \A d \in DeviceIds :
            status'[d] = OFFLINE => alerts'[d][DEVICE_OFFLINE] = 1]_vars

\* After a step, a device the runner marked OFFLINE and a device set OFFLINE
\* from outside with no last-contact, each with one ACTIVE alert.
C16_Witness ==
    /\ current_time > 0
    /\ \E d, e \in DeviceIds :
        /\ status[d] = OFFLINE
        /\ last_seen[d] # None
        /\ alerts[d][DEVICE_OFFLINE] = 1
        /\ status[e] = OFFLINE
        /\ last_seen[e] = None
        /\ alerts[e][DEVICE_OFFLINE] = 1

\* C17: a device that is OFFLINE or in MAINTENANCE when a step begins gets
\* no Reading in it, no entry in its duty-cycle ledger or in the collision
\* history, and its last-contact is left as it was.
C17_NotOnlineDoesNotTransmit ==
    [][StepTaken =>
        \A d \in DeviceIds :
            status[d] # ONLINE =>
                /\ \A i \in DOMAIN step_readings' :
                      step_readings'[i].device_id # d
                /\ \A i \in DOMAIN step_uplinks' :
                      step_uplinks'[i].device_id # d
                /\ device_message_counts'[d] = device_message_counts[d]
                /\ {tx \in transmission_history' : tx.device_id = d}
                      \subseteq transmission_history
                /\ last_seen'[d] = last_seen[d]
                /\ device_last_seen'[d] = device_last_seen[d]]_vars

\* A step that processed a device and passed over another that an earlier
\* step had marked OFFLINE.
C17_Witness ==
    \E d \in DeviceIds :
        /\ status[d] = OFFLINE
        /\ last_seen[d] # None
        /\ current_time - ValueOf(last_seen[d])
              > offline_threshold + transmission_interval
        /\ \A i \in DOMAIN step_readings : step_readings[i].device_id # d
        /\ \E i \in DOMAIN step_readings :
              step_readings[i].timestamp = current_time

\* C18: the Reading of a device with an override carries the override, 0
\* included, whatever the traffic generator draws; the Reading of a device
\* without one carries a level of the traffic generator: a first level, or
\* the device's previous level plus a change, not below 0.
C18_OverrideIsTheReading ==
    [][StepTaken =>
        \A i \in DOMAIN step_readings' :
            LET r == step_readings'[i]
                d == r.device_id
            IN  /\ water_level_overrides[d] # None
                      => r.water_level_cm = ValueOf(water_level_overrides[d])
                /\ water_level_overrides[d] = None
                      => IF device_last_levels[d] = None
                         THEN r.water_level_cm \in FirstLevels
                         ELSE \E change \in Rough.changes :
                                r.water_level_cm
                                    = IF ValueOf(device_last_levels[d])
                                            + change < 0
                                      THEN 0
                                      ELSE ValueOf(device_last_levels[d])
                                            + change]_vars

\* The first step of a run, with a Reading of 0 cm for a device whose
\* override is 0 and a Reading of the first generated level for a device
\* without an override.
C18_Witness ==
    /\ current_time = offline_threshold + SecondsPerMinute
    /\ \E i, j \in DOMAIN step_readings :
        /\ step_readings[i].timestamp = current_time
        /\ water_level_overrides[step_readings[i].device_id] = Some(0)
        /\ step_readings[i].water_level_cm = 0
        /\ water_level_overrides[step_readings[j].device_id] = None
        /\ step_readings[j].water_level_cm \in FirstLevels

C20_FailedStepPersistsNothing ==
    [][(StepTaken /\ commit_failed') =>
        /\ stored_readings' = <<>>
        /\ last_seen' = last_seen
        /\ status' = status]_vars

\* C22: when the commit that ends a step fails, every transmission the step
\* recorded is in the collision history and in the ledger of its device
\* after the step, where the calls of later steps find it.
C22_FailedCommitKeepsStack ==
    [][(StepTaken /\ commit_failed') =>
        \A i \in DOMAIN step_uplinks' :
            LET u == step_uplinks'[i]
            IN  u.duty_cycle_ok =>
                  /\ [device_id |-> u.device_id,
                      spreading_factor |-> u.spreading_factor,
                      time |-> u.time] \in transmission_history'
                  /\ \E k \in DOMAIN device_message_counts'[u.device_id] :
                        device_message_counts'[u.device_id][k] = u.time]_vars

\* The second step of a run, its commit failed: the uplink it admitted is in
\* the history and the ledger, next to the entry of the first step.
C22_Witness ==
    /\ commit_failed
    /\ current_time = 2 * (offline_threshold + SecondsPerMinute)
    /\ \E i \in DOMAIN step_uplinks :
        LET u == step_uplinks[i]
        IN  /\ u.time = current_time
            /\ u.duty_cycle_ok
            /\ [device_id |-> u.device_id,
                spreading_factor |-> u.spreading_factor,
                time |-> u.time] \in transmission_history
            /\ device_message_counts[u.device_id]
                  = <<offline_threshold + SecondsPerMinute, current_time>>

\* C28: there is at most one ACTIVE alert for a device and an alert type:
\* an evaluator that finds an ACTIVE alert of its condition adds no row.
C28_OneActiveAlert ==
    \A d \in DeviceIds, t \in AlertTypes : alerts[d][t] <= 1

\* After the second step of a run, a device that was OFFLINE from the start
\* and has a rate of rise alert: its offline alert was evaluated in both
\* steps and is one row.
C28_Witness ==
    /\ current_time = 2 * (offline_threshold + SecondsPerMinute)
    /\ \E d \in DeviceIds :
        /\ status[d] = OFFLINE
        /\ last_seen[d] = None
        /\ alerts[d][DEVICE_OFFLINE] = 1
    /\ \E d \in DeviceIds : alerts[d][RATE_OF_RISE] = 1

\* C26: a call of step that is not forced, made while the runner is not
\* running, changes nothing; a forced call executes a step, running or
\* not: the clock advances by the step size, every ONLINE device gets a
\* Reading of the new time, and is_running is what it was.
C26_StepGatedUnlessForced ==
    [][last_call'.op = "step" =>
        /\ (~is_running /\ ~last_call'.force) => UNCHANGED program_vars
        /\ last_call'.force =>
              /\ is_running' = is_running
              /\ current_time'
                    = current_time + last_call'.time_delta_seconds
              /\ \A d \in OnlineDevices :
                    \E i \in DOMAIN step_readings' :
                        /\ step_readings'[i].device_id = d
                        /\ step_readings'[i].timestamp = current_time']_vars

\* A forced step executed while the runner was not running, after an
\* earlier step: the Readings are of the new time.
C26_Witness ==
    /\ last_call = StepCall(transmission_interval, TRUE)
    /\ ~is_running
    /\ current_time = 2 * transmission_interval
    /\ \E i \in DOMAIN step_readings :
            step_readings[i].timestamp = current_time

\* A call of step without force, made while the runner was not running,
\* after a step.
C26_WitnessNoOp ==
    /\ last_call = StepCall(transmission_interval, FALSE)
    /\ ~is_running
    /\ current_time = transmission_interval
    /\ step_readings # <<>>

\* C27: reset() empties the collision history and the ledgers of the stack
\* and the caches of last levels and last contacts, sets the clock to the
\* wall clock, and leaves the rest as it was: the status and the last
\* contact of the devices, the Readings, the alerts, the overrides and
\* is_running.
C27_ResetClearsStackAndCaches ==
    [][last_call'.op = "reset" =>
        /\ transmission_history' = {}
        /\ \A d \in DeviceIds :
            /\ device_message_counts'[d] = <<>>
            /\ device_last_levels'[d] = None
            /\ device_last_seen'[d] = None
        /\ current_time' \in ResetTimes
        /\ UNCHANGED <<status, last_seen, spreading_factor, step_readings,
                       stored_readings, alerts, water_level_overrides,
                       session_overrides, is_running>>]_vars

\* reset() called on a running runner after a step that delivered a
\* Reading above the threshold for a device with an override: the stack
\* and the caches are empty, the clock is the wall clock, the last contact,
\* the Readings, the alert and the override are there.
C27_Witness ==
    /\ last_call = Call("reset")
    /\ is_running
    /\ transmission_history = {}
    /\ current_time \in ResetTimes
    /\ \E d \in DeviceIds :
        /\ device_last_seen[d] = None
        /\ device_last_levels[d] = None
        /\ last_seen[d] = Some(transmission_interval)
        /\ water_level_overrides[d] = Some(water_level_threshold_cm + 10)
        /\ alerts[d][HIGH_WATER_LEVEL] = 1
        /\ \E i \in DOMAIN stored_readings :
                stored_readings[i].device_id = d

\* C27 as stated: reset() leaves everything but the stack and the caches
\* as it was, the clock included.
C27_ResetLeavesTheRest ==
    [][last_call'.op = "reset" =>
        /\ transmission_history' = {}
        /\ \A d \in DeviceIds :
            /\ device_message_counts'[d] = <<>>
            /\ device_last_levels'[d] = None
            /\ device_last_seen'[d] = None
        /\ UNCHANGED <<current_time, status, last_seen, spreading_factor,
                       step_readings, stored_readings, alerts,
                       water_level_overrides, session_overrides,
                       is_running>>]_vars

\* C24: a call of step with a step size of zero or less changes neither
\* the clock, nor the Readings, nor the stack, nor the devices.
C24_NonPositiveStepRejected ==
    [][(last_call'.op = "step" /\ last_call'.time_delta_seconds <= 0) =>
        UNCHANGED <<current_time, step_readings, stored_readings,
                    transmission_history, device_message_counts, status,
                    last_seen, device_last_seen, device_last_levels>>]_vars

\* C25: the clock never decreases, and it changes only in a step, by the
\* step size of the call.
C25_ClockMonotonic ==
    [][/\ current_time' >= current_time
       /\ current_time' # current_time =>
            /\ last_call'.op = "step"
            /\ current_time'
                  = current_time + last_call'.time_delta_seconds]_vars

\* C23: after a step in which the turn of a device raised, every other
\* device that was ONLINE has its Reading, the result of its
\* process_uplink call and its status update, and the Readings of the step
\* are committed.
C23_DeviceErrorIsContained ==
    [][StepTaken =>
        /\ \A d \in OnlineDevices \ step_errors' :
            /\ \E i \in DOMAIN step_readings' :
                /\ step_readings'[i].device_id = d
                /\ step_readings'[i].timestamp = current_time'
                /\ step_uplinks'[i].device_id = d
                /\ step_uplinks'[i].time = current_time'
            /\ status'[d] = update_device_status(last_seen'[d],
                                                 current_time')
        /\ ~commit_failed'
        /\ stored_readings' = step_readings']_vars

\* A step in which the turn of the first device raised and the second
\* device was processed after it: its Reading is committed.
C23_Witness ==
    /\ Len(step_readings) = 2
    /\ step_readings[1].device_id \in step_errors
    /\ step_readings[2].device_id \notin step_errors
    /\ step_readings[2].timestamp = current_time
    /\ stored_readings = step_readings

\* C21: when the last commit of a step made by the page's automatic
\* advance fails, the simulation is stopped.
C21_FailedCommitStopsAutoAdvance ==
    [][(last_call'.op = "auto_advance" /\ StepTaken /\ commit_failed')
            => ~is_running']_vars

C30_ClearedOverridesAreNotUsed ==
    [][(last_call.op = "clear_overrides" /\ StepTaken) =>
        \A i \in DOMAIN step_readings' :
            LET r == step_readings'[i]
                d == r.device_id
            IN  IF device_last_levels[d] = None
                THEN r.water_level_cm \in Unreliable.firsts
                ELSE \E change \in Unreliable.changes :
                        r.water_level_cm
                            = IF ValueOf(device_last_levels[d]) + change < 0
                              THEN 0
                              ELSE ValueOf(device_last_levels[d])
                                    + change]_vars


\* C31: a step gives every ONLINE device whose spreading factor is not one
\* of 7..12 its Reading, which is not delivered, and leaves the device
\* without a last contact, in its row and in the runner's cache.
C31_InvalidSfNeverDelivered ==
    [][StepTaken =>
        \A d \in OnlineDevices :
            spreading_factor[d] \notin ValidSpreadingFactors =>
                /\ \E i \in DOMAIN step_readings' :
                    /\ step_readings'[i].device_id = d
                    /\ step_readings'[i].timestamp = current_time'
                    /\ ~step_readings'[i].packet_delivered
                /\ last_seen'[d] = None
                /\ device_last_seen'[d] = None]_vars

\* The second step of a device with spreading factor 13: its uplink is
\* admitted and does not collide, its Reading is not delivered, and it has
\* no last contact.
C31_Witness ==
    /\ current_time = 2 * transmission_interval
    /\ \E i \in DOMAIN step_readings :
        LET d == step_readings[i].device_id
        IN  /\ spreading_factor[d] = 13
            /\ step_readings[i].timestamp = current_time
            /\ step_uplinks[i].duty_cycle_ok
            /\ step_uplinks[i].no_collision
            /\ ~step_readings[i].packet_delivered
            /\ last_seen[d] = None
            /\ status[d] = ONLINE


\* C32: the level of a Reading of a device without an override, which is
\* the level generate_water_level returned, is not below 0, whatever the
\* previous level and the change drawn.
C32_GeneratedLevelNotNegative ==
    [][StepTaken =>
        \A i \in DOMAIN step_readings' :
            water_level_overrides[step_readings'[i].device_id] = None
                => step_readings'[i].water_level_cm >= 0]_vars

\* A Reading of 0 cm of a device without an override whose first level was
\* above 0: the change drawn took the level below 0.
C32_Witness ==
    /\ current_time = 2 * (offline_threshold + SecondsPerMinute)
    /\ \E i \in DOMAIN step_readings :
        /\ step_readings[i].timestamp = current_time
        /\ water_level_overrides[step_readings[i].device_id] = None
        /\ step_readings[i].water_level_cm = 0
        /\ \A first \in FirstLevels : first > 0


\* C33: in a step of the default size on a fleet whose only ONLINE device
\* is a device with SF7, the uplink of the device is admitted by the duty
\* cycle and does not collide.
C33_SingleDeviceNeverRejected ==
    [][(/\ StepTaken
        /\ last_call'.time_delta_seconds = transmission_interval
        /\ \E d \in DeviceIds :
            /\ OnlineDevices = {d}
            /\ spreading_factor[d] = 7) =>
        \A i \in DOMAIN step_uplinks' :
            /\ step_uplinks'[i].duty_cycle_ok
            /\ step_uplinks'[i].no_collision]_vars


\* C34: the ledger of a device never holds more than max_messages_per_hour
\* entries, and never more than that many inside the hour that ends at one
\* of its entries.
C34_LedgerWithinQuota ==
    \A d \in DeviceIds :
        /\ Len(device_message_counts[d]) <= max_messages_per_hour
        /\ \A k \in DOMAIN device_message_counts[d] :
            Cardinality({j \in DOMAIN device_message_counts[d] :
                /\ device_message_counts[d][j]
                      > device_message_counts[d][k] - SecondsPerHour
                /\ device_message_counts[d][j]
                      <= device_message_counts[d][k]})
                <= max_messages_per_hour

\* A call denied for a device whose ledger is full, with entries of two
\* different times.
C34_Witness ==
    /\ step_uplinks # <<>>
    /\ ~step_uplinks[1].duty_cycle_ok
    /\ LET d == step_uplinks[1].device_id
       IN  /\ Len(device_message_counts[d]) = max_messages_per_hour
           /\ \E j, k \in DOMAIN device_message_counts[d] :
                device_message_counts[d][j] # device_message_counts[d][k]


\* C35: in a step longer than the collision window, an admitted uplink is
\* free of collision exactly when no uplink processed before it in the step
\* was admitted with the same spreading factor, so at most one Reading of
\* a spreading factor is delivered in the step.
C35_FirstProcessedWins ==
    [][(StepTaken /\ last_call'.time_delta_seconds > collision_window) =>
        /\ \A i \in DOMAIN step_uplinks' :
            step_uplinks'[i].duty_cycle_ok =>
                (step_uplinks'[i].no_collision
                    <=> ~\E j \in 1 .. i - 1 :
                            /\ step_uplinks'[j].duty_cycle_ok
                            /\ step_uplinks'[j].spreading_factor
                                  = step_uplinks'[i].spreading_factor)
        /\ \A i, j \in DOMAIN step_readings' :
            (/\ step_readings'[i].packet_delivered
             /\ step_readings'[j].packet_delivered
             /\ step_uplinks'[i].spreading_factor
                  = step_uplinks'[j].spreading_factor) => i = j]_vars

\* A step with two admitted uplinks of one spreading factor, device 2
\* processed first: its uplink is clear and its Reading delivered, the
\* uplink of device 1 collided.
C35_Witness ==
    /\ Len(step_uplinks) = 2
    /\ step_uplinks[1].device_id = 2
    /\ step_uplinks[1].time = current_time
    /\ step_uplinks[1].spreading_factor = step_uplinks[2].spreading_factor
    /\ step_uplinks[1].duty_cycle_ok
    /\ step_uplinks[2].duty_cycle_ok
    /\ step_uplinks[1].no_collision
    /\ ~step_uplinks[2].no_collision
    /\ step_readings[1].packet_delivered
    /\ ~step_readings[2].packet_delivered

\* The Alert rows of a device and a type, of any status.
AlertRecords(d, t) ==
    alerts[d][t] + acknowledged_alerts[d][t] + resolved_alerts[d][t]

\* C36: a step that evaluates a condition that holds for a device (the
\* device is OFFLINE, or its Reading of the step is above the threshold)
\* while no alert of that type is ACTIVE for it adds one ACTIVE alert and
\* leaves the acknowledged and resolved ones, so the records grow by one.
C36_NewAlertWhileConditionHolds ==
    [][StepTaken =>
        /\ \A d \in DeviceIds :
            (status'[d] = OFFLINE /\ alerts[d][DEVICE_OFFLINE] = 0)
                => /\ alerts'[d][DEVICE_OFFLINE] = 1
                   /\ AlertRecords(d, DEVICE_OFFLINE)'
                        = AlertRecords(d, DEVICE_OFFLINE) + 1
        /\ \A d \in DeviceIds :
            (/\ \E i \in DOMAIN step_readings' :
                    /\ step_readings'[i].device_id = d
                    /\ step_readings'[i].water_level_cm
                            > water_level_threshold_cm
             /\ alerts[d][HIGH_WATER_LEVEL] = 0)
                => /\ alerts'[d][HIGH_WATER_LEVEL] = 1
                   /\ AlertRecords(d, HIGH_WATER_LEVEL)'
                        = AlertRecords(d, HIGH_WATER_LEVEL) + 1]_vars

\* An OFFLINE device has as many offline alerts as steps were taken, one of
\* them ACTIVE.
C36_Witness ==
    \E d \in DeviceIds :
        /\ status[d] = OFFLINE
        /\ alerts[d][DEVICE_OFFLINE] = 1
        /\ acknowledged_alerts[d][DEVICE_OFFLINE] >= 1
        /\ resolved_alerts[d][DEVICE_OFFLINE] >= 1
        /\ AlertRecords(d, DEVICE_OFFLINE) = MaxLifecycleSteps

C38_NothingAheadOfTheClock ==
    /\ \A d \in DeviceIds :
        /\ last_seen[d] # None => ValueOf(last_seen[d]) <= current_time
        /\ device_last_seen[d] # None
                => ValueOf(device_last_seen[d]) <= current_time
        /\ \A i \in DOMAIN device_message_counts[d] :
                device_message_counts[d][i] <= current_time
    /\ \A e \in transmission_history : e.time <= current_time
    /\ \A i \in DOMAIN step_readings :
            step_readings[i].timestamp <= current_time
    /\ \A i \in DOMAIN stored_readings :
            stored_readings[i].timestamp <= current_time

\* C38: the bound holds in every state, and the Reading a step creates for
\* a device is later than the Reading the step before created for it.
C38_TimestampsFollowTheClock ==
    [][/\ C38_NothingAheadOfTheClock'
       /\ StepTaken =>
            \A i \in DOMAIN step_readings', j \in DOMAIN step_readings :
                step_readings'[i].device_id = step_readings[j].device_id
                    => step_readings'[i].timestamp
                            > step_readings[j].timestamp]_vars

\* A running runner has taken a second step: the ledger and the Readings
\* of a device that was heard hold times, all of them of the steps taken.
C38_Witness ==
    /\ is_running
    /\ last_call.op = "step" /\ ~last_call.force
    /\ \E d \in DeviceIds :
        /\ Len(device_message_counts[d]) >= 2
        /\ last_seen[d] # None /\ device_last_seen[d] # None
        /\ \E i \in DOMAIN stored_readings :
                /\ stored_readings[i].device_id = d
                /\ stored_readings[i].timestamp = current_time

\* C39: a step whose last commit failed has still advanced the clock by its
\* delta, and device_last_levels and device_last_seen hold what the step
\* wrote: the level of each Reading it created, and the time of the step
\* for each Reading that was delivered.
C39_FailedCommitKeepsMemory ==
    [][(StepTaken /\ commit_failed') =>
        /\ current_time' = current_time + last_call'.time_delta_seconds
        /\ \A i \in DOMAIN step_readings' :
            /\ device_last_levels'[step_readings'[i].device_id]
                    = Some(step_readings'[i].water_level_cm)
            /\ step_readings'[i].packet_delivered
                    => device_last_seen'[step_readings'[i].device_id]
                            = Some(current_time')]_vars

\* The last commit failed: the cache holds the time of the step for a
\* device whose stored last contact and Reading were rolled back.
C39_Witness ==
    /\ commit_failed
    /\ current_time > 0
    /\ stored_readings = <<>>
    /\ \E d \in DeviceIds :
        /\ device_last_seen[d] = Some(current_time)
        /\ last_seen[d] # Some(current_time)
        /\ device_last_levels[d] # None

====
